---------------------------- MODULE Spec2Model ----------------------------
(***************************************************************************)
(* Model of gdk_common/src/model.rs (louisinger/gdk): the derivation-path  *)
(* classifier parse_path, the resolution of a GetUnspentOutputs collection *)
(* into Utxos, and the two-phase construction of TransactionMeta.          *)
(*                                                                         *)
(* Each component is a pure transform of its inputs, so each has its own   *)
(* specification: Init draws the input from a bounded set and the action   *)
(* applies the function.  The variables of the other components stay idle. *)
(***************************************************************************)
EXTENDS Integers, Sequences, FiniteSets, TLC

VARIABLES
    path,             \* the DerivationPath handed to parse_path
    path_result,      \* None, or Some(result of parse_path(path))
    unspent_outputs,  \* the GetUnspentOutputs map, as its entries in iteration order
    utxos_result,     \* None, or Some(result of Utxos::try_from(&unspent_outputs))
    clock,            \* the wall clock that now() reads, in microseconds
    txm,              \* None, or Some(the TransactionMeta instance)
    call,             \* the last operation on txm and its arguments
    tx_item,          \* the satoshi map of the TxListItem to serialize
    tx_item_json,     \* None, or Some(outcome of serializing tx_item's satoshi)
    spv,              \* an SPVVerifyTxResult
    spv_out,          \* what as_i32, Display, Serialize and Deserialize gave for spv
    error,            \* the Error to serialize
    error_json,       \* None, or Some(the fields its serialization wrote)
    utxo,             \* the (outpoint, info) pair handed to UnspentOutput::new
    unspent_output    \* None, or Some(the UnspentOutput built from utxo)

\* the variables of the serializers and of UnspentOutput::new
ser_vars == <<tx_item, tx_item_json, spv, spv_out, error, error_json>>
new_vars == <<utxo, unspent_output>>

vars == <<path, path_result, unspent_outputs, utxos_result, clock, txm, call,
          ser_vars, new_vars>>

-----------------------------------------------------------------------------
(* Option<T> and Result<T, Error> *)

None == [tag |-> "None"]
Some(v) == [tag |-> "Some", val |-> v]
Ok(v) == [tag |-> "Ok", val |-> v]
Err(e) == [tag |-> "Err", err |-> e]

IsSome(o) == o.tag = "Some"
IsOk(r) == r.tag = "Ok"
IsErr(r) == r.tag = "Err"

SeqsUpTo(S, n) == UNION {[1..k -> S] : k \in 0..n}

-----------------------------------------------------------------------------
(* Derivation paths: bitcoin::util::bip32::{ChildNumber, DerivationPath} *)

MaxIndex == 2
MaxPathLen == 4

ChildNumbers == [kind : {"Normal", "Hardened"}, index : 0..MaxIndex]
DerivationPaths == SeqsUpTo(ChildNumbers, MaxPathLen)

\* path.into_iter().rev(): the components, last first
Rev(s) == [i \in 1..Len(s) |-> s[Len(s) + 1 - i]]

\* a parse_path that reads the change flag from the wrong convention
parse_path_flag0(p) ==
    LET iter == Rev(p) IN
    IF Len(iter) >= 1 /\ iter[1].kind = "Normal"
    THEN IF Len(iter) >= 2 /\ iter[2].kind = "Normal"
         THEN Ok(<<iter[2].index = 0, iter[1].index>>)
         ELSE Err("Unexpected derivation path")
    ELSE Err("Unexpected derivation path")

\* a parse_path that does not look at the kind of the second-to-last component
parse_path_anykind(p) ==
    LET iter == Rev(p) IN
    IF Len(iter) >= 1 /\ iter[1].kind = "Normal"
    THEN IF Len(iter) >= 2
         THEN Ok(<<iter[2].index = 1, iter[1].index>>)
         ELSE Err("Unexpected derivation path")
    ELSE Err("Unexpected derivation path")

\* parse_path: (is_internal, address_pointer) from the last two components
parse_path(p) ==
    LET iter == Rev(p) IN
    IF Len(iter) >= 1 /\ iter[1].kind = "Normal"
    THEN LET address_pointer == iter[1].index IN
         IF Len(iter) >= 2 /\ iter[2].kind = "Normal"
         THEN LET is_internal == (iter[2].index = 1) IN
              Ok(<<is_internal, address_pointer>>)
         ELSE Err("Unexpected derivation path")
    ELSE Err("Unexpected derivation path")

PathIdle == path = <<>> /\ path_result = None
UtxoIdle == unspent_outputs = <<>> /\ utxos_result = None
MetaIdle == clock = 0 /\ txm = None /\ call = [op |-> "none", n |-> 0]
ItemIdle == tx_item = <<>> /\ tx_item_json = None
SpvIdle ==
    /\ spv = "InProgress"
    /\ spv_out = [as_i32 |-> None, to_string |-> None, serialized |-> None,
                  input |-> None, deserialized |-> None]
ErrorIdle == error = [kind |-> "UnknownCall", payload |-> ""] /\ error_json = None
SerIdle == ItemIdle /\ SpvIdle /\ ErrorIdle
NewIdle == utxo = <<>> /\ unspent_output = None

PathInit ==
    /\ path \in DerivationPaths
    /\ path_result = None
    /\ UtxoIdle
    /\ MetaIdle
    /\ SerIdle
    /\ NewIdle

ParsePath ==
    /\ path_result = None
    /\ path_result' = Some(parse_path(path))
    /\ UNCHANGED <<path, unspent_outputs, utxos_result, clock, txm, call, ser_vars, new_vars>>

PathNext == ParsePath

PathSpec == PathInit /\ [][PathNext]_vars

\* the path ends in two normal components
EndsInTwoNormal(p) ==
    /\ Len(p) >= 2
    /\ p[Len(p)].kind = "Normal"
    /\ p[Len(p) - 1].kind = "Normal"

\* the last two components of a path of at least two
LastTwo(p) == <<p[Len(p) - 1], p[Len(p)]>>

(* C1: for every path whose last two components are normal, parse_path     *)
(* returns Ok((is_internal, pointer)) with pointer the index of the last   *)
(* component and is_internal true exactly when the index of the            *)
(* second-to-last component is 1; the result is that of the two-component  *)
(* path made of the last two components alone.                             *)
C1_ParsePathClassifies ==
    (IsSome(path_result) /\ EndsInTwoNormal(path)) =>
        /\ IsOk(path_result.val)
        /\ path_result.val.val[2] = path[Len(path)].index
        /\ path_result.val.val[1] = (path[Len(path) - 1].index = 1)
        /\ path_result.val = parse_path(LastTwo(path))

\* a longer path with hardened account components, change chain 1, was classified
C1_Witness ==
    /\ IsSome(path_result)
    /\ EndsInTwoNormal(path)
    /\ Len(path) >= 3
    /\ path[1].kind = "Hardened"
    /\ path[Len(path) - 1].index = 1
    /\ path[Len(path)].index = 2
    /\ path_result.val = Ok(<<TRUE, 2>>)

(* C2: parse_path returns an error for every path that does not end in two *)
(* normal components: the empty path, a one-component path, a path whose   *)
(* last component is hardened, one whose second-to-last is hardened.       *)
C2_ParsePathRejects ==
    (IsSome(path_result) /\ ~EndsInTwoNormal(path)) =>
        /\ IsErr(path_result.val)
        /\ path_result.val = Err("Unexpected derivation path")

\* a path with a hardened second-to-last and a normal last component was rejected
C2_Witness ==
    /\ IsSome(path_result)
    /\ Len(path) >= 2
    /\ path[Len(path)].kind = "Normal"
    /\ path[Len(path) - 1].kind = "Hardened"
    /\ IsErr(path_result.val)

-----------------------------------------------------------------------------
(* GetUnspentOutputs -> Utxos                                              *)
(*                                                                         *)
(* Strings are sequences of characters.  Hashes are abbreviated to one     *)
(* byte, so a well-formed txhash or asset id has two hex digits where the  *)
(* program's have sixty-four.                                              *)

MaxRecords == 2

Str_btc == <<"b", "t", "c">>
Str_aa == <<"a", "a">>
Str_AA == <<"A", "A">>
Str_gg == <<"g", "g">>
Str_ab == <<"a", "b">>
Str_AB == <<"A", "B">>
Str_cd == <<"c", "d">>
Str_g0 == <<"g", "0">>

\* the keys of the map: the base asset, one asset id in two spellings, a malformed id
AssetKeys == {Str_btc, Str_aa, Str_AA, Str_gg}
\* txhash strings: one txid in two spellings, another txid, a malformed one
TxHashes == {Str_ab, Str_AB, Str_cd, Str_g0}
Vouts == {0, 1}
BlockHeights == {0, 1806588}

\* char::to_digit(16); -1 stands for None
to_digit16(c) ==
    CASE c = "0" -> 0
      [] c \in {"a", "A"} -> 10
      [] c \in {"b", "B"} -> 11
      [] c \in {"c", "C"} -> 12
      [] c \in {"d", "D"} -> 13
      [] OTHER -> -1

\* str::parse for a hash type (Txid, AssetId): hex::FromHex, one byte here
from_hex(s) ==
    IF Len(s) # 2 THEN Err("InvalidLength")
    ELSE IF to_digit16(s[1]) < 0 \/ to_digit16(s[2]) < 0 THEN Err("InvalidChar")
    ELSE Ok(<<16 * to_digit16(s[1]) + to_digit16(s[2])>>)

UnspentOutputs ==
    [address_type : {"p2wsh"},
     block_height : BlockHeights,
     pointer : {0},
     pt_idx : Vouts,
     satoshi : {3650144},
     subaccount : {0},
     txhash : TxHashes,
     is_internal : {FALSE},
     confidential : {TRUE},
     derivation_path : {<<>>},
     scriptpubkey : {"script"}]

BEOutPoint_new_bitcoin(txid, vout) ==
    [chain |-> "Bitcoin", txid |-> txid, vout |-> vout]
BEOutPoint_new_elements(txid, vout) ==
    [chain |-> "Elements", txid |-> txid, vout |-> vout]

UTXOInfo_new_bitcoin(value, script, height, dpath) ==
    [asset |-> None, value |-> value, script |-> script, height |-> height,
     path |-> dpath, confidential |-> FALSE]
UTXOInfo_new_elements(asset, value, script, height, dpath, confidential) ==
    [asset |-> Some(asset), value |-> value, script |-> script, height |-> height,
     path |-> dpath, confidential |-> confidential]

\* a height match that keeps a zero height
height_of_keep0(block_height) == Some(block_height)

\* match e.block_height { 0 => None, n => Some(n) }
height_of(block_height) ==
    IF block_height = 0 THEN None ELSE Some(block_height)

\* a loop body that takes the outpoint's index from e.pointer
resolve_by_pointer(asset, e) ==
    LET height == height_of(e.block_height)
        txid == from_hex(e.txhash)
    IN  IF asset = Str_btc
        THEN IF IsErr(txid) THEN txid
             ELSE Ok(<<BEOutPoint_new_bitcoin(txid.val, e.pointer),
                       UTXOInfo_new_bitcoin(e.satoshi, e.scriptpubkey, height,
                                            e.derivation_path)>>)
        ELSE IF IsErr(txid) THEN txid
             ELSE LET asset_id == from_hex(asset) IN
                  IF IsErr(asset_id) THEN asset_id
                  ELSE Ok(<<BEOutPoint_new_elements(txid.val, e.pointer),
                            UTXOInfo_new_elements(asset_id.val, e.satoshi,
                                e.scriptpubkey, height, e.derivation_path,
                                e.confidential)>>)

\* the body of the inner loop: one record e of the bucket of key asset
resolve(asset, e) ==
    LET height == height_of(e.block_height)
        txid == from_hex(e.txhash)
    IN  IF asset = Str_btc
        THEN IF IsErr(txid) THEN txid
             ELSE Ok(<<BEOutPoint_new_bitcoin(txid.val, e.pt_idx),
                       UTXOInfo_new_bitcoin(e.satoshi, e.scriptpubkey, height,
                                            e.derivation_path)>>)
        ELSE IF IsErr(txid) THEN txid
             ELSE LET asset_id == from_hex(asset) IN
                  IF IsErr(asset_id) THEN asset_id
                  ELSE Ok(<<BEOutPoint_new_elements(txid.val, e.pt_idx),
                            UTXOInfo_new_elements(asset_id.val, e.satoshi,
                                e.scriptpubkey, height, e.derivation_path,
                                e.confidential)>>)

\* the entries of the map flattened in iteration order: <<asset, e>> pairs
RECURSIVE Flatten(_)
Flatten(entries) ==
    IF entries = <<>> THEN <<>>
    ELSE [i \in 1..Len(Head(entries).v) |-> <<Head(entries).asset, Head(entries).v[i]>>]
         \o Flatten(Tail(entries))

\* a loop that drops a record it cannot parse and goes on
RECURSIVE push_all_skipping(_, _)
push_all_skipping(items, utxos) ==
    IF items = <<>> THEN Ok(utxos)
    ELSE LET r == resolve(Head(items)[1], Head(items)[2]) IN
         IF IsErr(r) THEN push_all_skipping(Tail(items), utxos)
         ELSE push_all_skipping(Tail(items), Append(utxos, r.val))

\* a loop that inserts each pair at the front
RECURSIVE push_all_front(_, _)
push_all_front(items, utxos) ==
    IF items = <<>> THEN Ok(utxos)
    ELSE LET r == resolve(Head(items)[1], Head(items)[2]) IN
         IF IsErr(r) THEN r
         ELSE push_all_front(Tail(items), <<r.val>> \o utxos)

\* the two nested loops: `?` returns the first error, utxos.push appends
RECURSIVE push_all(_, _)
push_all(items, utxos) ==
    IF items = <<>> THEN Ok(utxos)
    ELSE LET r == resolve(Head(items)[1], Head(items)[2]) IN
         IF IsErr(r) THEN r
         ELSE push_all(Tail(items), Append(utxos, r.val))

\* impl TryFrom<&GetUnspentOutputs> for Utxos
try_from(entries) == push_all(Flatten(entries), <<>>)

\* group a flat sequence of <<asset, e>> pairs into the entries of a map
RECURSIVE Group(_)
Group(items) ==
    IF items = <<>> THEN <<>>
    ELSE LET rest == Group(Tail(items))
             a == Head(items)[1]
             e == Head(items)[2]
         IN  IF rest # <<>> /\ Head(rest).asset = a
             THEN <<[asset |-> a, v |-> <<e>> \o Head(rest).v]>> \o Tail(rest)
             ELSE <<[asset |-> a, v |-> <<e>>]>> \o rest

DistinctKeys(entries) ==
    \A i, j \in 1..Len(entries) : i # j => entries[i].asset # entries[j].asset

\* the flat sequences of at most MaxRecords <<asset, e>> pairs that are the
\* entries of a map: the records of one key are adjacent
IsMapOrder(items) == DistinctKeys(Group(items))

\* every map of non-empty buckets holding at most MaxRecords records, in every
\* iteration order a HashMap may give its keys
UtxoInit ==
    /\ \E k \in 0..MaxRecords :
         \E items \in [1..k -> AssetKeys \X UnspentOutputs] :
            /\ IsMapOrder(items)
            /\ unspent_outputs = Group(items)
    /\ utxos_result = None
    /\ PathIdle
    /\ MetaIdle
    /\ SerIdle
    /\ NewIdle

TryFrom ==
    /\ utxos_result = None
    /\ utxos_result' = Some(try_from(unspent_outputs))
    /\ UNCHANGED <<path, path_result, unspent_outputs, clock, txm, call, ser_vars, new_vars>>

UtxoNext == TryFrom

UtxoSpec == UtxoInit /\ [][UtxoNext]_vars

\* the <<asset, e>> pairs of the input in iteration order, and the pairs resolved
Items == Flatten(unspent_outputs)
Resolved == utxos_result.val.val
Succeeded == IsSome(utxos_result) /\ IsOk(utxos_result.val)

RECURSIVE SumLen(_)
SumLen(entries) ==
    IF entries = <<>> THEN 0 ELSE Len(Head(entries).v) + SumLen(Tail(entries))

\* the number of records in the buckets that come before bucket i
Offset(i) == SumLen(SubSeq(unspent_outputs, 1, i - 1))

(* C3: in a successful resolution a record with block_height = 0 yields an *)
(* info whose height is None and a record with block_height = n > 0 yields *)
(* Some(n), under the key "btc" and under any other key; no resolved info  *)
(* carries Some(0).                                                        *)
C3_ZeroHeightIsAbsent ==
    Succeeded =>
        /\ Len(Resolved) = Len(Items)
        /\ \A k \in 1..Len(Items) :
             LET e == Items[k][2]
                 info == Resolved[k][2]
             IN  /\ e.block_height = 0 => info.height = None
                 /\ e.block_height > 0 => info.height = Some(e.block_height)
        /\ \A k \in 1..Len(Resolved) : Resolved[k][2].height # Some(0)

\* an unconfirmed record under "btc" and a confirmed one under an asset id resolved
C3_Witness ==
    /\ Succeeded
    /\ \E k \in 1..Len(Items) :
         /\ Items[k][1] = Str_btc
         /\ Items[k][2].block_height = 0
         /\ Resolved[k][2].height = None
    /\ \E k \in 1..Len(Items) :
         /\ Items[k][1] # Str_btc
         /\ Items[k][2].block_height = 1806588
         /\ Resolved[k][2].height = Some(1806588)

(* C4: a successful resolution has exactly one pair per record, summed     *)
(* over the buckets, and record j of bucket i is resolved at place         *)
(* Offset(i) + j: the pairs of one bucket keep the order of its records,   *)
(* and nothing is merged or dropped.                                       *)
C4_OnePairPerRecordInOrder ==
    Succeeded =>
        /\ Len(Resolved) = SumLen(unspent_outputs)
        /\ \A i \in 1..Len(unspent_outputs) :
             \A j \in 1..Len(unspent_outputs[i].v) :
                LET e == unspent_outputs[i].v[j]
                    pair == Resolved[Offset(i) + j]
                IN  /\ pair[1].vout = e.pt_idx
                    /\ Ok(pair[1].txid) = from_hex(e.txhash)
                    /\ pair[1].chain = "Bitcoin" <=> unspent_outputs[i].asset = Str_btc
                    /\ pair[2].value = e.satoshi

\* a bucket of two records that differ, one of them twice over, was resolved
C4_Witness ==
    /\ Succeeded
    /\ Len(unspent_outputs) = 1
    /\ Len(unspent_outputs[1].v) = 2
    /\ unspent_outputs[1].v[1].pt_idx = 1
    /\ unspent_outputs[1].v[2].pt_idx = 0
    /\ Len(Resolved) = 2
    /\ Resolved[1][1].vout = 1
    /\ Resolved[2][1].vout = 0

\* the record does not parse: its txhash, or its key when the key is not "btc"
Malformed(item) ==
    \/ IsErr(from_hex(item[2].txhash))
    \/ item[1] # Str_btc /\ IsErr(from_hex(item[1]))

(* C5: if any record of the collection is malformed, the call returns an   *)
(* error, whatever well-formed records come before or after it.            *)
C5_OneMalformedFailsAll ==
    (IsSome(utxos_result) /\ \E k \in 1..Len(Items) : Malformed(Items[k])) =>
        IsErr(utxos_result.val)

\* a malformed record after a well-formed one failed the call
C5_Witness ==
    /\ IsSome(utxos_result)
    /\ Len(Items) = 2
    /\ ~Malformed(Items[1])
    /\ Malformed(Items[2])
    /\ IsErr(utxos_result.val)

\* (asset key, txhash, pt_idx) as the strings the caller gave
KeyStrings(item) == <<item[1], item[2].txhash, item[2].pt_idx>>

\* (asset id, txid, pt_idx) as the values the strings parse to
KeyParsed(item) ==
    <<IF item[1] = Str_btc THEN None ELSE Some(from_hex(item[1])),
      from_hex(item[2].txhash), item[2].pt_idx>>

(* C6 as claimed: in a successful resolution two records that differ in    *)
(* asset-key string, txhash string or pt_idx never resolve to the same     *)
(* pair.                                                                   *)
C6_InjectiveOnStrings ==
    Succeeded =>
        \A i, j \in 1..Len(Items) :
            (i # j /\ KeyStrings(Items[i]) # KeyStrings(Items[j]))
                => Resolved[i] # Resolved[j]

(* C6 as amended: in a successful resolution two records whose asset keys  *)
(* parse to different asset ids (or of which just one is "btc"), whose     *)
(* txhashes parse to different txids, or whose pt_idx differ, never        *)
(* resolve to the same pair.                                               *)
C6_InjectiveOnParsed ==
    Succeeded =>
        \A i, j \in 1..Len(Items) :
            (i # j /\ KeyParsed(Items[i]) # KeyParsed(Items[j]))
                => Resolved[i] # Resolved[j]

\* one outpoint under "btc" and under an asset id resolved to two different pairs,
\* as did two outputs of one transaction in one bucket
C6_Witness ==
    /\ Succeeded
    /\ Len(Items) = 2
    /\ KeyParsed(Items[1]) # KeyParsed(Items[2])
    /\ Items[1][2] = Items[2][2]
    /\ Items[1][1] = Str_btc
    /\ Items[2][1] = Str_AA
    /\ Resolved[1] # Resolved[2]

-----------------------------------------------------------------------------
(* TransactionMeta: bare construction and enrichment *)

MaxClock == 2
MaxEnrich == 2

\* usize -> f32: round to nearest, ties to even, on a 24-bit significand
RECURSIVE Ulp(_)
Ulp(n) == IF n < 16777216 THEN 1 ELSE 2 * Ulp(n \div 2)

as_f32(n) ==
    LET ulp == Ulp(n)
        q == n \div ulp
        r == n % ulp
    IN  IF 2 * r < ulp THEN q * ulp
        ELSE IF 2 * r > ulp THEN (q + 1) * ulp
        ELSE IF q % 2 = 0 THEN q * ulp ELSE (q + 1) * ulp

\* (weight as f32 / 4.0) as usize: the division is exact, the cast truncates
vsize_of(weight) == as_f32(weight) \div 4

\* fn now(): the wall clock, in microseconds
now == clock

\* get_weight() of a transaction: multiples of four and not, below and above 2^24
TxWeights == {400, 401, 403, 561, 16777216, 16777219}
\* weights below that of any serialized transaction, zero among them
SmallWeights == {0, 1, 3}

\* a BETransaction as what its methods return
BETransactionsOf(Weights) ==
    [txid : {"t1", "t2"}, hex : {"0200"}, rbf_optin : BOOLEAN,
     weight : Weights, size : {110, 191}]
BETransactions == BETransactionsOf(TxWeights \cup SmallWeights)

\* a BETransactionEntry: the transaction and the weight and size stored beside
\* it, which are those of the transaction or larger
BETransactionEntries ==
    {txe \in [tx : BETransactionsOf(TxWeights), weight : TxWeights, size : {110, 191}] :
        txe.weight >= txe.tx.weight /\ txe.size >= txe.tx.size}

\* impl From<BETransaction> for TransactionMeta, with the reading of now()
from_transaction(transaction, timestamp) ==
    [create_transaction |-> None,
     height |-> None,
     timestamp |-> timestamp,
     txid |-> transaction.txid,
     hex |-> transaction.hex,
     error |-> "",
     addressees_have_assets |-> FALSE,
     addressees_read_only |-> FALSE,
     is_sweep |-> FALSE,
     satoshi |-> {},
     fee |-> 0,
     network |-> None,
     type_ |-> "unknown",
     changes_used |-> None,
     user_signed |-> FALSE,
     spv_verified |-> "InProgress",
     rbf_optin |-> transaction.rbf_optin,
     weight |-> transaction.weight,
     vsize |-> vsize_of(transaction.weight),
     size |-> transaction.size]

\* impl From<BETransactionEntry> for TransactionMeta
from_entry(txe, timestamp) ==
    LET txm0 == from_transaction(txe.tx, timestamp) IN
    [txm0 EXCEPT !.weight = txe.weight, !.size = txe.size]

BareInit ==
    /\ clock = 0
    /\ txm = None
    /\ call = [op |-> "none", n |-> 0]
    /\ PathIdle
    /\ UtxoIdle
    /\ SerIdle
    /\ NewIdle

\* the wall clock advances
Tick ==
    /\ clock < MaxClock
    /\ clock' = clock + 1
    /\ UNCHANGED <<path, path_result, unspent_outputs, utxos_result, txm, call, ser_vars, new_vars>>

\* TransactionMeta::from(transaction)
FromTransaction(Txs) ==
    \E transaction \in Txs :
        /\ txm = None
        /\ txm' = Some(from_transaction(transaction, now))
        /\ call' = [op |-> "from_transaction", n |-> 0, tx_weight |-> transaction.weight]
        /\ UNCHANGED <<path, path_result, unspent_outputs, utxos_result, clock, ser_vars, new_vars>>

\* TransactionMeta::from(txe)
FromEntry(Entries) ==
    \E txe \in Entries :
        /\ txm = None
        /\ txm' = Some(from_entry(txe, now))
        /\ call' = [op |-> "from_entry", n |-> 0, tx_weight |-> txe.tx.weight]
        /\ UNCHANGED <<path, path_result, unspent_outputs, utxos_result, clock, ser_vars, new_vars>>

BareNext ==
    \/ FromEntry(BETransactionEntries)
    \/ FromTransaction(BETransactions)
    \/ Tick

BareSpec == BareInit /\ [][BareNext]_vars

Bare == IsSome(txm) /\ call.op \in {"from_transaction", "from_entry"}

(* C7: every TransactionMeta produced by bare construction, from a         *)
(* BETransaction or from a BETransactionEntry, has                         *)
(* vsize = floor(weight / 4) on its own weight and vsize fields.           *)
C7_VsizeIsQuarterWeight ==
    Bare => txm.val.vsize = txm.val.weight \div 4

-----------------------------------------------------------------------------
(* Enrichment: TransactionMeta::new *)

\* the CreateTransaction request handed to new
Request ==
    [addressees |-> <<[address |-> "addr", satoshi |-> 5000, asset_id |-> None]>>,
     fee_rate |-> Some(1000), subaccount |-> 0, send_all |-> FALSE,
     utxo_strategy |-> "Default"]

\* the arguments of new after `transaction`
EnrichArgs ==
    [height : {None, Some(1806588)},
     timestamp : {None, Some(7)},
     satoshi : {{}, {<<"btc", -5000>>, <<"asset1", 200>>}},
     fee : {0, 1000},
     network : {"Testnet"},
     type_ : {"incoming", "outgoing"},
     create_transaction : {Request},
     user_signed : BOOLEAN,
     spv_verified : {"InProgress", "Verified"}]

\* a new that leaves out the fee
new_without_fee(wgtx, a, t_now) ==
    [wgtx EXCEPT
        !.create_transaction = Some(a.create_transaction),
        !.height = a.height,
        !.timestamp = IF IsSome(a.timestamp) THEN a.timestamp.val ELSE t_now,
        !.satoshi = a.satoshi,
        !.network = Some(a.network),
        !.type_ = a.type_,
        !.user_signed = a.user_signed,
        !.spv_verified = a.spv_verified]

\* a new that keeps the timestamp of wgtx when it is given none
new_keep_timestamp(wgtx, a, t_now) ==
    [wgtx EXCEPT
        !.create_transaction = Some(a.create_transaction),
        !.height = a.height,
        !.timestamp = IF IsSome(a.timestamp) THEN a.timestamp.val ELSE wgtx.timestamp,
        !.satoshi = a.satoshi,
        !.network = Some(a.network),
        !.fee = a.fee,
        !.type_ = a.type_,
        !.user_signed = a.user_signed,
        !.spv_verified = a.spv_verified]

\* a new that leaves an instance alone once it holds a creation request
new_once(wgtx, a, t_now) ==
    IF IsSome(wgtx.create_transaction) THEN wgtx
    ELSE [wgtx EXCEPT
            !.create_transaction = Some(a.create_transaction),
            !.height = a.height,
            !.timestamp = IF IsSome(a.timestamp) THEN a.timestamp.val ELSE t_now,
            !.satoshi = a.satoshi,
            !.network = Some(a.network),
            !.fee = a.fee,
            !.type_ = a.type_,
            !.user_signed = a.user_signed,
            !.spv_verified = a.spv_verified]

\* a new that recomputes the virtual size from the weight it finds
new_recomputing_vsize(wgtx, a, t_now) ==
    [wgtx EXCEPT
        !.create_transaction = Some(a.create_transaction),
        !.height = a.height,
        !.timestamp = IF IsSome(a.timestamp) THEN a.timestamp.val ELSE t_now,
        !.satoshi = a.satoshi,
        !.network = Some(a.network),
        !.fee = a.fee,
        !.type_ = a.type_,
        !.user_signed = a.user_signed,
        !.spv_verified = a.spv_verified,
        !.vsize = vsize_of(wgtx.weight)]

\* TransactionMeta::new after `transaction.into()`: wgtx is the converted
\* instance, a the other arguments, t_now what now() returns if it is called
new(wgtx, a, t_now) ==
    [wgtx EXCEPT
        !.create_transaction = Some(a.create_transaction),
        !.height = a.height,
        !.timestamp = IF IsSome(a.timestamp) THEN a.timestamp.val ELSE t_now,
        !.satoshi = a.satoshi,
        !.network = Some(a.network),
        !.fee = a.fee,
        !.type_ = a.type_,
        !.user_signed = a.user_signed,
        !.spv_verified = a.spv_verified]

\* the transactions and the entry that are enriched
EnrichTxs ==
    {[txid |-> "t1", hex |-> "0200", rbf_optin |-> TRUE, weight |-> 401, size |-> 110],
     [txid |-> "t2", hex |-> "0200", rbf_optin |-> FALSE, weight |-> 561, size |-> 191]}
EnrichEntries ==
    {[tx |-> [txid |-> "t1", hex |-> "0200", rbf_optin |-> TRUE, weight |-> 400,
              size |-> 110],
      weight |-> 561, size |-> 191]}

\* the fields of an instance that new does not assign
Untouched(m) ==
    [txid |-> m.txid, hex |-> m.hex, rbf_optin |-> m.rbf_optin, weight |-> m.weight,
     size |-> m.size, vsize |-> m.vsize, error |-> m.error, is_sweep |-> m.is_sweep,
     addressees_have_assets |-> m.addressees_have_assets,
     addressees_read_only |-> m.addressees_read_only,
     changes_used |-> m.changes_used]

\* what the call record keeps of one enrichment: its source, its arguments, the
\* reading of now() at line 348, how many enrichments the instance has had, and
\* the timestamp, type tag and unassigned fields of the instance that went in
NewCall(from, a, t_now, n, wgtx) ==
    [op |-> "new", from |-> from, args |-> a, now |-> t_now, n |-> n,
     before |-> [timestamp |-> wgtx.timestamp, type_ |-> wgtx.type_,
                 untouched |-> Untouched(wgtx)]]

\* an instance whose public fields a caller has set after construction
GivenMetas ==
    {[from_entry(txe, 0) EXCEPT
        !.error = "insufficient funds",
        !.is_sweep = TRUE,
        !.addressees_have_assets = TRUE,
        !.addressees_read_only = TRUE,
        !.changes_used = Some(1)] : txe \in EnrichEntries}

\* TransactionMeta::new(transaction: BETransaction, ..): into() reads the clock
\* at line 297, new reads it again at line 348, d microseconds later
NewFromTransaction(Txs) ==
    \E transaction \in Txs, a \in EnrichArgs, d \in {0, 1} :
        /\ txm = None
        /\ clock + d <= MaxClock
        /\ LET wgtx == from_transaction(transaction, now)
               t_now == now + d
           IN  /\ txm' = Some(new(wgtx, a, t_now))
               /\ call' = NewCall("transaction", a, t_now, 1, wgtx)
               /\ clock' = t_now
        /\ UNCHANGED <<path, path_result, unspent_outputs, utxos_result, ser_vars, new_vars>>

\* TransactionMeta::new(transaction: BETransactionEntry, ..)
NewFromEntry(Entries) ==
    \E txe \in Entries, a \in EnrichArgs, d \in {0, 1} :
        /\ txm = None
        /\ clock + d <= MaxClock
        /\ LET wgtx == from_entry(txe, now)
               t_now == now + d
           IN  /\ txm' = Some(new(wgtx, a, t_now))
               /\ call' = NewCall("entry", a, t_now, 1, wgtx)
               /\ clock' = t_now
        /\ UNCHANGED <<path, path_result, unspent_outputs, utxos_result, ser_vars, new_vars>>

\* TransactionMeta::new(transaction: TransactionMeta, ..): into() is the identity
NewFromMeta ==
    \E a \in EnrichArgs :
        /\ IsSome(txm)
        /\ call.n < MaxEnrich
        /\ LET wgtx == txm.val
               t_now == now
           IN  /\ txm' = Some(new(wgtx, a, t_now))
               /\ call' = NewCall("meta", a, t_now, call.n + 1, wgtx)
        /\ UNCHANGED <<path, path_result, unspent_outputs, utxos_result, clock, ser_vars, new_vars>>

\* TransactionMeta::new(transaction: TransactionMeta, ..) on an instance that
\* comes from the caller
NewFromGiven ==
    \E m \in GivenMetas, a \in EnrichArgs :
        /\ txm = None
        /\ LET wgtx == m
               t_now == now
           IN  /\ txm' = Some(new(wgtx, a, t_now))
               /\ call' = NewCall("given", a, t_now, 1, wgtx)
        /\ UNCHANGED <<path, path_result, unspent_outputs, utxos_result, clock, ser_vars, new_vars>>

MetaInit == BareInit

MetaNext ==
    \/ Tick
    \/ FromTransaction(EnrichTxs)
    \/ FromEntry(EnrichEntries)
    \/ NewFromTransaction(EnrichTxs)
    \/ NewFromEntry(EnrichEntries)
    \/ NewFromMeta
    \/ NewFromGiven

MetaSpec == MetaInit /\ [][MetaNext]_vars

Enriched == IsSome(txm) /\ call.op = "new"

(* C8: after the first enrichment of an instance the record holds exactly  *)
(* the supplied height, balance map, fee, network, type tag, creation      *)
(* request, user_signed flag and SPV state.                                *)
C8_EnrichmentReadsBack ==
    (Enriched /\ call.n = 1) =>
        /\ txm.val.height = call.args.height
        /\ txm.val.satoshi = call.args.satoshi
        /\ txm.val.fee = call.args.fee
        /\ txm.val.network = Some(call.args.network)
        /\ txm.val.type_ = call.args.type_
        /\ txm.val.create_transaction = Some(call.args.create_transaction)
        /\ txm.val.user_signed = call.args.user_signed
        /\ txm.val.spv_verified = call.args.spv_verified

\* an instance enriched once with no value equal to its bare default
C8_Witness ==
    /\ Enriched
    /\ call.n = 1
    /\ txm.val.height = Some(1806588)
    /\ txm.val.satoshi = {<<"btc", -5000>>, <<"asset1", 200>>}
    /\ txm.val.fee = 1000
    /\ txm.val.network = Some("Testnet")
    /\ txm.val.type_ = "outgoing"
    /\ txm.val.create_transaction = Some(Request)
    /\ txm.val.user_signed
    /\ txm.val.spv_verified = "Verified"

(* C9 as claimed: enrichment with an explicit timestamp sets the timestamp *)
(* to it, and enrichment with none keeps the timestamp of the bare         *)
(* instance it was built from.                                             *)
C9_KeepsBareTimestamp ==
    (Enriched /\ call.n = 1) =>
        txm.val.timestamp =
            IF IsSome(call.args.timestamp) THEN call.args.timestamp.val
            ELSE call.before.timestamp

(* C9 as amended: enrichment with an explicit timestamp sets the timestamp *)
(* to it, and enrichment with none sets it to what now() returns during    *)
(* the enrichment.                                                         *)
C9_TimestampIsOverrideOrNow ==
    Enriched =>
        txm.val.timestamp =
            IF IsSome(call.args.timestamp) THEN call.args.timestamp.val
            ELSE call.now

\* the clock advanced after bare construction, and an enrichment with no
\* timestamp stamped the record with the later reading
C9_Witness ==
    /\ Enriched
    /\ call.n = 1
    /\ call.args.timestamp = None
    /\ call.before.timestamp < call.now
    /\ txm.val.timestamp = call.now

(* C10 as claimed: once enrichment has set the type tag, balances, fee and *)
(* creation request of an instance, no later step replaces them.           *)
C10_EnrichedOnce ==
    [][Enriched =>
        /\ IsSome(txm')
        /\ txm'.val.type_ = txm.val.type_
        /\ txm'.val.satoshi = txm.val.satoshi
        /\ txm'.val.fee = txm.val.fee
        /\ txm'.val.create_transaction = txm.val.create_transaction]_vars

(* C10 as amended: an enriched instance can be enriched again, and the     *)
(* record then holds the type tag, balances, fee, creation request,        *)
(* height, network, user_signed and SPV state of the latest enrichment.    *)
C10_LatestEnrichmentWins ==
    (Enriched /\ call.n >= 2) =>
        /\ txm.val.type_ = call.args.type_
        /\ txm.val.satoshi = call.args.satoshi
        /\ txm.val.fee = call.args.fee
        /\ txm.val.create_transaction = Some(call.args.create_transaction)
        /\ txm.val.height = call.args.height
        /\ txm.val.network = Some(call.args.network)
        /\ txm.val.user_signed = call.args.user_signed
        /\ txm.val.spv_verified = call.args.spv_verified

\* an instance enriched as incoming was enriched again as outgoing
C10_Witness ==
    /\ Enriched
    /\ call.n = 2
    /\ call.from = "meta"
    /\ call.before.type_ = "incoming"
    /\ txm.val.type_ = "outgoing"
    /\ txm.val.fee = 1000

-----------------------------------------------------------------------------
(* TxListItem: serialization of the satoshi map.                            *)
(* i64 is modelled at a reduced width of IntBits bits, two's complement.     *)

IntBits == 8

I64_MIN == 0 - 2^(IntBits - 1)
I64_MAX == 2^(IntBits - 1) - 1

\* reduction of an integer to the two's-complement range
wrap(n) == ((n + 2^(IntBits - 1)) % 2^IntBits) - 2^(IntBits - 1)

Panic == [tag |-> "Panic"]

\* i64::abs: the negation overflows at the minimum value; a build with
\* overflow checks panics there, a build without them wraps
abs(v, overflow_checks) ==
    IF v < 0
    THEN IF 0 - v > I64_MAX
         THEN IF overflow_checks THEN Panic ELSE Ok(wrap(0 - v))
         ELSE Ok(0 - v)
    ELSE Ok(v)

ItemAssets == {"btc", "asset1"}
ItemValues == {I64_MIN, I64_MIN + 1, 0 - 5, 0, 5, I64_MAX}

\* Balances = HashMap<String, i64>: a function from its keys
BalanceMaps == UNION {[K -> ItemValues] : K \in SUBSET ItemAssets}

serialize_tx_balances(balances, overflow_checks) ==
    LET abs_of == [k \in DOMAIN balances |-> abs(balances[k], overflow_checks)]
    IN  IF \E k \in DOMAIN balances : abs_of[k] = Panic
        THEN Panic
        ELSE Ok([k \in DOMAIN balances |-> abs_of[k].val])

ItemInit ==
    /\ tx_item \in BalanceMaps
    /\ tx_item_json = None
    /\ SpvIdle
    /\ ErrorIdle
    /\ PathIdle
    /\ UtxoIdle
    /\ MetaIdle
    /\ NewIdle

\* serde serializes the satoshi field through serialize_tx_balances, which
\* takes the map by shared reference; the build decides the overflow checks
SerializeItem ==
    /\ tx_item_json = None
    /\ \E overflow_checks \in BOOLEAN :
        tx_item_json' = Some([overflow_checks |-> overflow_checks,
                              satoshi |-> serialize_tx_balances(tx_item, overflow_checks)])
    /\ UNCHANGED <<path, path_result, unspent_outputs, utxos_result, clock, txm, call,
                   tx_item, spv, spv_out, error, error_json, new_vars>>

ItemNext == SerializeItem

ItemSpec == ItemInit /\ [][ItemNext]_vars

Magnitude(v) == IF v < 0 THEN 0 - v ELSE v

\* C11: when a TxListItem is serialized, the serialized satoshi map has the
\* keys of the in-memory map and every value is non-negative and equal to
\* the absolute value of the signed balance, for every balance value
\* including the minimum representable one.
C11_SerializedIsAbsolute ==
    IsSome(tx_item_json) =>
        /\ IsOk(tx_item_json.val.satoshi)
        /\ DOMAIN tx_item_json.val.satoshi.val = DOMAIN tx_item
        /\ \A k \in DOMAIN tx_item :
            /\ tx_item_json.val.satoshi.val[k] >= 0
            /\ tx_item_json.val.satoshi.val[k] = Magnitude(tx_item[k])

-----------------------------------------------------------------------------
(* SPVVerifyTxResult: numeric codes, Display tags and serde tags.           *)
(* Identifiers and tags are sequences of one-character strings.             *)

SPVVerifyTxResults ==
    {"Unconfirmed", "InProgress", "Verified", "NotVerified", "NotLongest", "Disabled"}

\* the identifier of each variant as written in the enum
variant_ident(s) ==
    CASE s = "Unconfirmed" -> <<"U", "n", "c", "o", "n", "f", "i", "r", "m", "e", "d">>
      [] s = "InProgress" -> <<"I", "n", "P", "r", "o", "g", "r", "e", "s", "s">>
      [] s = "Verified" -> <<"V", "e", "r", "i", "f", "i", "e", "d">>
      [] s = "NotVerified" -> <<"N", "o", "t", "V", "e", "r", "i", "f", "i", "e", "d">>
      [] s = "NotLongest" -> <<"N", "o", "t", "L", "o", "n", "g", "e", "s", "t">>
      [] s = "Disabled" -> <<"D", "i", "s", "a", "b", "l", "e", "d">>

Uppercase == <<"A", "B", "C", "D", "E", "F", "G", "H", "I", "J", "K", "L", "M", "N", "O", "P", "Q", "R", "S", "T", "U", "V", "W", "X", "Y", "Z">>
Lowercase == <<"a", "b", "c", "d", "e", "f", "g", "h", "i", "j", "k", "l", "m", "n", "o", "p", "q", "r", "s", "t", "u", "v", "w", "x", "y", "z">>

is_uppercase(ch) == \E i \in DOMAIN Uppercase : Uppercase[i] = ch
to_ascii_lowercase(ch) ==
    IF is_uppercase(ch)
    THEN Lowercase[CHOOSE i \in DOMAIN Uppercase : Uppercase[i] = ch]
    ELSE ch

\* serde's rename_all = "snake_case" on a variant identifier: an underscore
\* before every uppercase letter but the first, every letter lowercased
RECURSIVE snake_case_from(_, _)
snake_case_from(ident, i) ==
    IF i > Len(ident)
    THEN <<>>
    ELSE (IF i > 1 /\ is_uppercase(ident[i]) THEN <<"_">> ELSE <<>>)
         \o <<to_ascii_lowercase(ident[i])>>
         \o snake_case_from(ident, i + 1)

snake_case(ident) == snake_case_from(ident, 1)

Tag_in_progress == <<"i", "n", "_", "p", "r", "o", "g", "r", "e", "s", "s">>
Tag_verified == <<"v", "e", "r", "i", "f", "i", "e", "d">>
Tag_not_verified == <<"n", "o", "t", "_", "v", "e", "r", "i", "f", "i", "e", "d">>
Tag_disabled == <<"d", "i", "s", "a", "b", "l", "e", "d">>
Tag_not_longest == <<"n", "o", "t", "_", "l", "o", "n", "g", "e", "s", "t">>
Tag_unconfirmed == <<"u", "n", "c", "o", "n", "f", "i", "r", "m", "e", "d">>

\* as_i32 with Disabled given the code of NotLongest
as_i32_collapsed(s) ==
    CASE s = "InProgress" -> 0
      [] s = "Verified" -> 1
      [] s = "NotVerified" -> 2
      [] s = "Disabled" -> 4
      [] s = "NotLongest" -> 4
      [] s = "Unconfirmed" -> 5

as_i32(s) ==
    CASE s = "InProgress" -> 0
      [] s = "Verified" -> 1
      [] s = "NotVerified" -> 2
      [] s = "Disabled" -> 3
      [] s = "NotLongest" -> 4
      [] s = "Unconfirmed" -> 5

\* Display::fmt
to_string(s) ==
    CASE s = "InProgress" -> Tag_in_progress
      [] s = "Verified" -> Tag_verified
      [] s = "NotVerified" -> Tag_not_verified
      [] s = "Disabled" -> Tag_disabled
      [] s = "NotLongest" -> Tag_not_longest
      [] s = "Unconfirmed" -> Tag_unconfirmed

\* derived Serialize of a unit variant: its renamed identifier
serialize_spv(s) == snake_case(variant_ident(s))

\* derived Deserialize: the variant whose renamed identifier is the tag
deserialize_spv(tag) ==
    IF \E s \in SPVVerifyTxResults : snake_case(variant_ident(s)) = tag
    THEN Ok(CHOOSE s \in SPVVerifyTxResults : snake_case(variant_ident(s)) = tag)
    ELSE Err("unknown variant")

\* strings handed to the deserializer: the Display tags and the identifiers
SpvInputs ==
    {to_string(s) : s \in SPVVerifyTxResults} \cup {variant_ident(s) : s \in SPVVerifyTxResults}

SpvInit ==
    /\ spv \in SPVVerifyTxResults
    /\ spv_out = [as_i32 |-> None, to_string |-> None, serialized |-> None,
                  input |-> None, deserialized |-> None]
    /\ ItemIdle
    /\ ErrorIdle
    /\ PathIdle
    /\ UtxoIdle
    /\ MetaIdle
    /\ NewIdle

SpvFrame ==
    UNCHANGED <<path, path_result, unspent_outputs, utxos_result, clock, txm, call,
                tx_item, tx_item_json, spv, error, error_json, new_vars>>

AsI32 ==
    /\ spv_out.as_i32 = None
    /\ spv_out' = [spv_out EXCEPT !.as_i32 = Some(as_i32(spv))]
    /\ SpvFrame

DisplayFmt ==
    /\ spv_out.to_string = None
    /\ spv_out' = [spv_out EXCEPT !.to_string = Some(to_string(spv))]
    /\ SpvFrame

SerializeSpv ==
    /\ spv_out.serialized = None
    /\ spv_out' = [spv_out EXCEPT !.serialized = Some(serialize_spv(spv))]
    /\ SpvFrame

DeserializeSpv ==
    /\ spv_out.input = None
    /\ \E tag \in SpvInputs :
        spv_out' = [spv_out EXCEPT !.input = Some(tag),
                                   !.deserialized = Some(deserialize_spv(tag))]
    /\ SpvFrame

SpvNext == AsI32 \/ DisplayFmt \/ SerializeSpv \/ DeserializeSpv

SpvSpec == SpvInit /\ [][SpvNext]_vars

\* the codes of the six tags
TagCodes ==
    {<<Tag_in_progress, 0>>, <<Tag_verified, 1>>, <<Tag_not_verified, 2>>,
     <<Tag_disabled, 3>>, <<Tag_not_longest, 4>>, <<Tag_unconfirmed, 5>>}

\* C12: the six SPV states map one-to-one onto the codes in_progress=0,
\* verified=1, not_verified=2, disabled=3, not_longest=4, unconfirmed=5 and
\* onto the six tags: no other state has the code or the Display tag of a
\* state, the Display tag equals the serialized tag, and deserializing the
\* state's tag gives the state back.
C12_SpvCodesAndTags ==
    /\ IsSome(spv_out.as_i32) =>
        /\ spv_out.as_i32.val \in 0..5
        /\ \A s \in SPVVerifyTxResults : as_i32(s) = spv_out.as_i32.val => s = spv
    /\ IsSome(spv_out.to_string) =>
        /\ \E tc \in TagCodes : tc[1] = spv_out.to_string.val
        /\ \A s \in SPVVerifyTxResults : to_string(s) = spv_out.to_string.val => s = spv
    /\ IsSome(spv_out.as_i32) /\ IsSome(spv_out.to_string) =>
        <<spv_out.to_string.val, spv_out.as_i32.val>> \in TagCodes
    /\ IsSome(spv_out.to_string) /\ IsSome(spv_out.serialized) =>
        spv_out.to_string.val = spv_out.serialized.val
    /\ IsSome(spv_out.serialized) /\ spv_out.input = spv_out.serialized =>
        spv_out.deserialized = Some(Ok(spv))
    /\ IsSome(spv_out.to_string) /\ spv_out.input = spv_out.to_string =>
        spv_out.deserialized = Some(Ok(spv))

C12_Witness ==
    /\ spv = "NotLongest"
    /\ spv_out.as_i32 = Some(4)
    /\ spv_out.to_string = Some(Tag_not_longest)
    /\ spv_out.serialized = Some(Tag_not_longest)
    /\ spv_out.input = Some(Tag_not_longest)
    /\ spv_out.deserialized = Some(Ok("NotLongest"))

-----------------------------------------------------------------------------
(* Error: serialization to the caller.                                      *)

\* the character U+0060 of the AddrParse message, which a string of this
\* notation cannot hold; it is written by name
GraveAccent == "[U+0060]"

\* strings carried by Generic and AddrParse
ErrorStrings ==
    {"", "boom", "invalid mnemonic", "127.0.0.1:x",
     "SocketAddr parse failure with no additional info"}

\* descriptions of the lower-layer errors wrapped by the other kinds
Causes ==
    {"io", "corrupt", "eof", "odd length", "checksum", "overflow", "not found"}

WrappingKinds ==
    {"DB", "Bitcoin", "BitcoinBIP32Error", "BitcoinConsensus", "JSON", "StdIOError", "Hex"}

Errors ==
    [kind : {"Generic", "AddrParse"}, payload : ErrorStrings]
    \cup [kind : {"UnknownCall", "InvalidMnemonic"}, payload : {""}]
    \cup [kind : WrappingKinds, payload : Causes]

\* a serializer that writes the wrapped cause of the kinds left unimplemented
serialize_error_exposing(e) ==
    Ok(IF e.kind \in {"UnknownCall", "InvalidMnemonic"}
       THEN <<>>
       ELSE <<<<"error", e.payload>>>>)

\* impl Serialize for Error: the fields written between serialize_struct
\* and end, in order
serialize_error(e) ==
    Ok(CASE e.kind = "Generic" -> <<<<"error", e.payload>>>>
         [] e.kind = "UnknownCall" -> <<>>
         [] e.kind = "AddrParse" ->
                <<<<"error", "could not parse SocketAddr " \o GraveAccent \o e.payload
                                \o GraveAccent>>>>
         [] e.kind = "InvalidMnemonic" -> <<<<"error", "invalid mnemonic">>>>
         [] e.kind = "DB" -> <<>>
         [] e.kind = "Bitcoin" -> <<>>
         [] e.kind = "BitcoinBIP32Error" -> <<>>
         [] e.kind = "BitcoinConsensus" -> <<>>
         [] e.kind = "JSON" -> <<>>
         [] e.kind = "StdIOError" -> <<>>
         [] e.kind = "Hex" -> <<>>)

ErrorInit ==
    /\ error \in Errors
    /\ error_json = None
    /\ ItemIdle
    /\ SpvIdle
    /\ PathIdle
    /\ UtxoIdle
    /\ MetaIdle
    /\ NewIdle

SerializeError ==
    /\ error_json = None
    /\ error_json' = Some(serialize_error(error))
    /\ UNCHANGED <<path, path_result, unspent_outputs, utxos_result, clock, txm, call,
                   tx_item, tx_item_json, spv, spv_out, error, new_vars>>

ErrorNext == SerializeError

ErrorSpec == ErrorInit /\ [][ErrorNext]_vars

MessageKinds == {"Generic", "AddrParse", "InvalidMnemonic"}

\* C13: serializing an Error succeeds for every kind; it yields one "error"
\* field exactly for Generic (the wrapped string), AddrParse ("could not
\* parse SocketAddr " and the address between two grave accents) and
\* InvalidMnemonic ("invalid mnemonic"), and no field at all for every other
\* kind.
C13_ErrorFieldOnlyForMessageKinds ==
    IsSome(error_json) =>
        /\ IsOk(error_json.val)
        /\ LET fields == error_json.val.val
           IN  /\ error.kind \in MessageKinds <=>
                    \E i \in DOMAIN fields : fields[i][1] = "error"
               /\ error.kind \in MessageKinds =>
                    /\ Len(fields) = 1
                    /\ error.kind = "Generic" => fields[1][2] = error.payload
                    /\ error.kind = "AddrParse" =>
                         fields[1][2] = "could not parse SocketAddr " \o GraveAccent
                                            \o error.payload \o GraveAccent
                    /\ error.kind = "InvalidMnemonic" => fields[1][2] = "invalid mnemonic"
               /\ error.kind \notin MessageKinds => fields = <<>>

C13_Witness ==
    /\ error = [kind |-> "DB", payload |-> "corrupt"]
    /\ error_json = Some(Ok(<<>>))

-----------------------------------------------------------------------------
(* UnspentOutput::new: an UnspentOutput from a backend outpoint and info.   *)

\* UnspentOutput::default()
UnspentOutput_default ==
    [address_type |-> "", block_height |-> 0, pointer |-> 0, pt_idx |-> 0,
     satoshi |-> 0, subaccount |-> 0, txhash |-> <<>>, is_internal |-> FALSE,
     confidential |-> FALSE, derivation_path |-> <<>>, scriptpubkey |-> ""]

\* one lowercase hexadecimal digit, the inverse of to_digit16
hex_digit(n) ==
    CASE n = 0 -> "0"
      [] n = 10 -> "a"
      [] n = 11 -> "b"
      [] n = 12 -> "c"
      [] n = 13 -> "d"

\* format!("{}", txid): two lowercase digits per byte
format_txid(txid) ==
    <<hex_digit(txid[1] \div 16), hex_digit(txid[1] % 16)>>

new_output(outpoint, info) ==
    LET parsed == parse_path(info.path)
        with_fields ==
            [UnspentOutput_default EXCEPT
                !.address_type = "p2shwpkh",
                !.satoshi = info.value,
                !.txhash = format_txid(outpoint.txid),
                !.pt_idx = outpoint.vout,
                !.derivation_path = info.path,
                !.scriptpubkey = info.script,
                !.confidential = info.confidential]
        with_path ==
            IF IsOk(parsed)
            THEN [with_fields EXCEPT !.is_internal = parsed.val[1],
                                     !.pointer = parsed.val[2]]
            ELSE with_fields
    IN  [with_path EXCEPT
            !.block_height = IF IsSome(info.height) THEN info.height.val ELSE 0]

OutPoints ==
    {BEOutPoint_new_bitcoin(from_hex(h).val, vout) : h \in {Str_ab, Str_cd}, vout \in Vouts}

Infos ==
    {UTXOInfo_new_bitcoin(3650144, "script", height, dpath) :
        height \in {None, Some(1806588)}, dpath \in DerivationPaths}

NewInit ==
    /\ utxo \in OutPoints \X Infos
    /\ unspent_output = None
    /\ PathIdle
    /\ UtxoIdle
    /\ MetaIdle
    /\ SerIdle

New ==
    /\ unspent_output = None
    /\ unspent_output' = Some(new_output(utxo[1], utxo[2]))
    /\ UNCHANGED <<path, path_result, unspent_outputs, utxos_result, clock, txm, call,
                   ser_vars, utxo>>

NewNext == New

NewSpec == NewInit /\ [][NewNext]_vars

\* C14: every UnspentOutput built by UnspentOutput::new has the is_internal
\* and pointer that parse_path returns for info.path; none is produced with
\* values that were not derived from its derivation path.
C14_PointerDerivedFromPath ==
    IsSome(unspent_output) =>
        LET parsed == parse_path(unspent_output.val.derivation_path)
        IN  /\ unspent_output.val.derivation_path = utxo[2].path
            /\ IsOk(parsed)
            /\ <<unspent_output.val.is_internal, unspent_output.val.pointer>> = parsed.val

-----------------------------------------------------------------------------
(* TransactionMeta::new: the fields it leaves alone.                        *)

\* C15: the result of TransactionMeta::new has the txid, hex, rbf_optin,
\* weight, size, vsize, error string, is_sweep, addressees_have_assets,
\* addressees_read_only and changes_used of the instance that went in.
C15_EnrichmentKeepsOtherFields ==
    Enriched => Untouched(txm.val) = call.before.untouched

\* an instance with none of these fields at its default went through new,
\* which set its type tag and fee
C15_Witness ==
    /\ Enriched
    /\ call.from = "given"
    /\ txm.val.type_ = "outgoing"
    /\ txm.val.fee = 1000
    /\ txm.val.error = "insufficient funds"
    /\ txm.val.is_sweep
    /\ txm.val.changes_used = Some(1)
    /\ txm.val.rbf_optin
    /\ txm.val.weight = 561
    /\ txm.val.vsize = 100

=============================================================================
